---- MODULE Spec2Model ----
(***************************************************************************)
(* Flappy Bird (src/src/main.rs): the GameState owned by the ggez event    *)
(* loop, its update handler and its key_down_event handler.                *)
(*                                                                         *)
(* Every f32 of the game (bird y and velocity, pipe x) is a multiple of    *)
(* 0.5 of small magnitude, so f32 arithmetic on them is exact; the model   *)
(* stores them as integers counted in half pixels (Scale units per pixel). *)
(***************************************************************************)
EXTENDS Integers, Sequences, FiniteSets

\* ---------------------------------------------------------------- units
Scale == 2

\* ------------------------------------------------------------ constants
GRAVITY == 1                        \* 0.5
JUMP_FORCE == -10 * Scale           \* -10.0
PIPE_SPEED == 5 * Scale             \* 5.0
PIPE_GAP == 150 * Scale
SCREEN_WIDTH == 600 * Scale
SCREEN_HEIGHT == 400 * Scale
BIRD_START_X == 100 * Scale
BIRD_START_Y == SCREEN_HEIGHT \div 2
INITIAL_PIPE_COUNT == 3
PIPE_SPACING == 300 * Scale
PIPE_SPAWN_DISTANCE == 300 * Scale
PIPE_OFF_SCREEN_X == -100 * Scale
PIPE_MIN_GAP_Y == 100 * Scale
PIPE_MAX_GAP_Y == 300 * Scale
PIPE_TOP_OFFSET == 200 * Scale

\* --------------------------------------------------------------- bounds
\* The player presses Space (or the keyboard repeats it) only between two
\* updates of which the first is a JumpPeriod-th one, and only during the
\* first MaxFrames updates of a game, long enough for pipes to be purged and
\* spawned.
\* games counts the restarts and saturates at MaxGames.
MaxFrames == 290
MaxGames == 1
JumpPeriod == 10

\* Samples of rng.gen_range(PIPE_MIN_GAP_Y..PIPE_MAX_GAP_Y): the two ends
\* of the half-open range.
GapYs == {PIPE_MIN_GAP_Y, PIPE_MAX_GAP_Y - 1}

\* input.keycode: Some(Space), Some(R), Some(any other key), None
KeyCodes == {"Space", "R", "Other", "None"}

VARIABLES
    bird,      \* GameState.bird: [x, y, velocity]
    pipes,     \* GameState.pipes: sequence of [x, gap_y]
    score,     \* GameState.score
    status,    \* GameState.status: "Playing" or "GameOver"
    result,    \* GameResult of the last handler call: "Ok" or "Err"
    frames,    \* updates performed in the Playing branch since GameState::new
    games,     \* restarts performed so far, saturating at MaxGames
    held,      \* the keyboard: whether the Space key is down
    other      \* a second run fed the same events, or "none"

\* what the handlers read and write
prog == <<bird, pipes, score, status, result, frames, games>>
vars == <<prog, held, other>>
game == <<bird, pipes, score, status>>

Min(a, b) == IF a < b THEN a ELSE b
Last(s) == s[Len(s)]

\* GameResult<T>
Err == [ok |-> FALSE]
Ok(v) == [ok |-> TRUE, val |-> v]

\* ----------------------------------------------------------------- Bird
\* loaded: whether Image::from_path(ctx, ASSET_BIRD) succeeds
Bird_new(loaded) ==
    IF loaded
    THEN Ok([x |-> BIRD_START_X, y |-> BIRD_START_Y, velocity |-> 0])
    ELSE Err

\* position integrated with the velocity of the previous frame
Bird_update_position_first(b) ==
    [b EXCEPT !.velocity = b.velocity + GRAVITY, !.y = b.y + b.velocity]

Bird_update(b) ==
    LET v == b.velocity + GRAVITY
    IN  [b EXCEPT !.velocity = v, !.y = b.y + v]

\* a cumulative impulse
jump_cumulative(b) == [b EXCEPT !.velocity = b.velocity + JUMP_FORCE]

jump(b) == [b EXCEPT !.velocity = JUMP_FORCE]

\* the bottom bound taken from the width of the screen
is_out_of_bounds_width(b) == b.y < 0 \/ b.y > SCREEN_WIDTH

is_out_of_bounds(b) == b.y < 0 \/ b.y > SCREEN_HEIGHT

\* ----------------------------------------------------------------- Pipe
\* gap_y: the value drawn by rng.gen_range; loaded: whether
\* Image::from_path(ctx, ASSET_PIPE) succeeds
Pipe_new(loaded, x, gap_y) ==
    IF loaded THEN Ok([x |-> x, gap_y |-> gap_y]) ELSE Err

\* the scroll applied twice
Pipe_update_twice(p) == [p EXCEPT !.x = p.x - 2 * PIPE_SPEED]

Pipe_update(p) == [p EXCEPT !.x = p.x - PIPE_SPEED]

\* a pipe is given up one screen width later
is_off_screen_late(p) == p.x < PIPE_OFF_SCREEN_X - SCREEN_WIDTH

is_off_screen(p) == p.x < PIPE_OFF_SCREEN_X

\* for pipe in &mut self.pipes { pipe.update(); }
update_pipes(ps) == [i \in 1..Len(ps) |-> Pipe_update(ps[i])]

\* self.pipes.retain(|pipe| !pipe.is_off_screen())
KeepOnScreen(p) == ~is_off_screen(p)
retain(ps) == SelectSeq(ps, KeepOnScreen)

\* the spawn distance left out of the comparison
spawn_due_early(ps) ==
    /\ Len(ps) > 0
    /\ Last(ps).x < SCREEN_WIDTH

\* the last pipe compared with the off-screen threshold
spawn_due_late(ps) ==
    /\ Len(ps) > 0
    /\ Last(ps).x < PIPE_OFF_SCREEN_X

\* if let Some(last_pipe) = self.pipes.last() { if last_pipe.x < ... }
spawn_due(ps) ==
    /\ Len(ps) > 0
    /\ Last(ps).x < SCREEN_WIDTH - PIPE_SPAWN_DISTANCE

\* the x handed to Pipe::new by update
spawn_x == SCREEN_WIDTH + PIPE_TOP_OFFSET

\* ------------------------------------------------------------ GameState
\* the initial pipes laid out with the offset of the spawn
initial_x_offset(i) == SCREEN_WIDTH + i * PIPE_TOP_OFFSET

\* the x handed to Pipe::new by GameState::new for i in 0..INITIAL_PIPE_COUNT
initial_x(i) == SCREEN_WIDTH + i * PIPE_SPACING

\* The loop of GameState::new: pipes 0..n-1, or Err at the first failed load.
\* loads[3 + i] and gaps[1 + i] are the outcomes of the load and of the
\* random draw of pipe i.
RECURSIVE initial_pipes(_, _, _)
initial_pipes(n, loads, gaps) ==
    IF n = 0 THEN Ok(<<>>)
    ELSE LET before == initial_pipes(n - 1, loads, gaps)
         IN  IF ~before.ok THEN Err
             ELSE LET p == Pipe_new(loads[2 + n], initial_x(n - 1), gaps[n])
                  IN  IF ~p.ok THEN Err
                      ELSE Ok(Append(before.val, p.val))

\* loads[1]: background, loads[2]: bird, loads[3..5]: pipes
GameState_new(loads, gaps) ==
    IF ~loads[1] THEN Err
    ELSE LET b == Bird_new(loads[2])
         IN  IF ~b.ok THEN Err
             ELSE LET ps == initial_pipes(INITIAL_PIPE_COUNT, loads, gaps)
                  IN  IF ~ps.ok THEN Err
                      ELSE Ok([bird |-> b.val, pipes |-> ps.val,
                               score |-> 0, status |-> "Playing"])

\* the outcomes of the image loads and random draws of one GameState::new
NumLoads == 2 + INITIAL_PIPE_COUNT
Loads == [1..NumLoads -> BOOLEAN]
AllLoaded == [i \in 1..NumLoads |-> TRUE]
Gaps == [1..INITIAL_PIPE_COUNT -> GapYs]
MinGaps == [i \in 1..INITIAL_PIPE_COUNT |-> PIPE_MIN_GAP_Y]

\* ------------------------------------------------------------- handlers
\* A run is the GameState together with the GameResult of the last handler
\* call: [bird, pipes, score, status, result].  The handlers are functions
\* from the run and the outcomes of the calls they make (image loads, random
\* draws) to the run they leave behind.

\* the bird also collides with a pipe it is passing outside of the gap
collision_with_pipes(b, ps) ==
    \/ is_out_of_bounds(b)
    \/ \E i \in 1..Len(ps) :
          /\ ps[i].x = b.x
          /\ \/ b.y < ps[i].gap_y - PIPE_GAP \div 2
             \/ b.y > ps[i].gap_y + PIPE_GAP \div 2

\* Check collisions (update): the bird against the screen bounds
collision(b, ps) == is_out_of_bounds(b)

\* update counting the pipes that pass the bird
update_self_scoring(self, loaded, gap_y) ==
    IF self.status = "Playing"
    THEN LET b1 == Bird_update(self.bird)
             kept == retain(update_pipes(self.pipes))
             check == IF collision(b1, kept) THEN "GameOver" ELSE self.status
             passed == IF \E i \in 1..Len(kept) : kept[i].x = b1.x
                       THEN 1 ELSE 0
         IN  IF spawn_due(kept)
             THEN LET p == Pipe_new(loaded, spawn_x, gap_y)
                  IN  IF p.ok
                      THEN [bird |-> b1, pipes |-> Append(kept, p.val),
                            score |-> self.score + passed, status |-> check,
                            result |-> "Ok"]
                      ELSE [bird |-> b1, pipes |-> kept,
                            score |-> self.score + passed,
                            status |-> self.status, result |-> "Err"]
             ELSE [bird |-> b1, pipes |-> kept,
                   score |-> self.score + passed,
                   status |-> check, result |-> "Ok"]
    ELSE [self EXCEPT !.result = "Ok"]

\* EventHandler::update.  loaded and gap_y are the outcomes of the image load
\* and of the random draw of the Pipe::new that update calls when a spawn is
\* due.
update_self(self, loaded, gap_y) ==
    IF self.status = "Playing"
    THEN LET b1 == Bird_update(self.bird)
             kept == retain(update_pipes(self.pipes))
             check == IF collision(b1, kept) THEN "GameOver" ELSE self.status
         IN  IF spawn_due(kept)
             THEN LET p == Pipe_new(loaded, spawn_x, gap_y)
                  IN  IF p.ok
                      THEN [bird |-> b1, pipes |-> Append(kept, p.val),
                            score |-> self.score, status |-> check,
                            result |-> "Ok"]
                      ELSE \* the ? returns from update
                           [bird |-> b1, pipes |-> kept,
                            score |-> self.score, status |-> self.status,
                            result |-> "Err"]
             ELSE [bird |-> b1, pipes |-> kept, score |-> self.score,
                   status |-> check, result |-> "Ok"]
    ELSE [self EXCEPT !.result = "Ok"]

\* the fields of self assigned one by one, as far as GameState::new got
restart_piecewise(self, loads, gaps) ==
    LET s == GameState_new(loads, gaps)
        b == Bird_new(loads[2])
    IN  IF s.ok
        THEN [bird |-> s.val.bird, pipes |-> s.val.pipes,
              score |-> s.val.score, status |-> s.val.status,
              result |-> "Ok"]
        ELSE IF loads[1] /\ b.ok
             THEN [self EXCEPT !.bird = b.val, !.result = "Err"]
             ELSE [self EXCEPT !.result = "Err"]

\* *self = GameState::new(_ctx)?;
restart(self, loads, gaps) ==
    LET s == GameState_new(loads, gaps)
    IN  IF s.ok
        THEN [bird |-> s.val.bird, pipes |-> s.val.pipes,
              score |-> s.val.score, status |-> s.val.status,
              result |-> "Ok"]
        ELSE [self EXCEPT !.result = "Err"]

\* key_down_event with the restart not guarded by the status
key_down_event_self_restart_any(self, keycode, repeat, loads, gaps) ==
    CASE keycode = "Space" ->
           IF self.status = "Playing"
           THEN [self EXCEPT !.bird = jump(self.bird), !.result = "Ok"]
           ELSE [self EXCEPT !.result = "Ok"]
      [] keycode = "R" -> restart(self, loads, gaps)
      [] OTHER -> [self EXCEPT !.result = "Ok"]

\* key_down_event with the jump not guarded by the status
key_down_event_self_unguarded(self, keycode, repeat, loads, gaps) ==
    CASE keycode = "Space" ->
           [self EXCEPT !.bird = jump(self.bird), !.result = "Ok"]
      [] keycode = "R" ->
           IF self.status = "GameOver"
           THEN restart(self, loads, gaps)
           ELSE [self EXCEPT !.result = "Ok"]
      [] OTHER -> [self EXCEPT !.result = "Ok"]

\* EventHandler::key_down_event.  loads and gaps are the outcomes of the
\* image loads and of the random draws of the GameState::new of a restart.
key_down_event_self(self, keycode, repeat, loads, gaps) ==
    CASE keycode = "Space" ->
           IF self.status = "Playing"
           THEN [self EXCEPT !.bird = jump(self.bird), !.result = "Ok"]
           ELSE [self EXCEPT !.result = "Ok"]
      [] keycode = "R" ->
           IF self.status = "GameOver"
           THEN restart(self, loads, gaps)
           ELSE [self EXCEPT !.result = "Ok"]
      [] OTHER -> [self EXCEPT !.result = "Ok"]

\* ------------------------------------------------------- the running game
\* the run held by the event loop
Self == [bird |-> bird, pipes |-> pipes, score |-> score,
         status |-> status, result |-> result]

Assign(run) ==
    /\ bird' = run.bird
    /\ pipes' = run.pipes
    /\ score' = run.score
    /\ status' = run.status
    /\ result' = run.result

\* main: the event loop starts only when GameState::new returned Ok
Started(gaps) ==
    LET s == GameState_new(AllLoaded, gaps).val
    IN  /\ bird = s.bird
        /\ pipes = s.pipes
        /\ score = s.score
        /\ status = s.status
        /\ result = "Ok"
        /\ frames = 0
        /\ games = 0
        /\ held = FALSE

Init == other = "none" /\ \E gaps \in Gaps : Started(gaps)

\* An Err returned by a handler ends event::run (the default on_error), so
\* no handler runs once result is "Err".
update_with(loaded, gap_y) ==
    /\ result = "Ok"
    /\ Assign(update_self(Self, loaded, gap_y))
    /\ frames' = IF status = "Playing" THEN frames + 1 ELSE frames
    /\ UNCHANGED games

\* update calls Pipe::new
calls_Pipe_new ==
    status = "Playing" /\ spawn_due(retain(update_pipes(pipes)))

update ==
    IF calls_Pipe_new
    THEN \E loaded \in BOOLEAN, gap_y \in GapYs : update_with(loaded, gap_y)
    ELSE update_with(TRUE, PIPE_MIN_GAP_Y)

key_down_event_with(keycode, repeat, loads, gaps) ==
    /\ result = "Ok"
    /\ LET run == key_down_event_self(Self, keycode, repeat, loads, gaps)
           restarted == status = "GameOver" /\ run.status = "Playing"
       IN  /\ Assign(run)
           /\ frames' = IF restarted THEN 0 ELSE frames
           /\ games' = IF restarted THEN Min(games + 1, MaxGames) ELSE games

\* key_down_event calls GameState::new
calls_GameState_new(keycode) == keycode = "R" /\ status = "GameOver"

key_down_event(keycode, repeat) ==
    IF calls_GameState_new(keycode)
    THEN \E loads \in Loads, gaps \in Gaps :
           key_down_event_with(keycode, repeat, loads, gaps)
    ELSE key_down_event_with(keycode, repeat, AllLoaded, MinGaps)

\* ---------------------------------------------------------- environment
\* The keyboard delivers a key-down of Space with repeat = FALSE when the key
\* goes down and with repeat = TRUE for as long as it stays down; the other
\* keys are not tracked.  The player stops pressing Space after MaxFrames
\* updates of a game.
KeyAllowed(keycode, repeat) ==
    /\ keycode = "Space" => repeat = held
    /\ (keycode = "Space" /\ status = "Playing") =>
           (frames % JumpPeriod = 0 /\ frames < MaxFrames)

Frame == update /\ UNCHANGED <<held, other>>

KeyDown == \E keycode \in KeyCodes, repeat \in BOOLEAN :
               /\ KeyAllowed(keycode, repeat)
               /\ key_down_event(keycode, repeat)
               /\ held' = (keycode = "Space" \/ held)
               /\ UNCHANGED other

\* Space is released; key_up_event is not overridden and does nothing
KeyUp == result = "Ok" /\ held /\ held' = FALSE /\ UNCHANGED <<prog, other>>

Next == Frame \/ KeyDown \/ KeyUp

Spec == Init /\ [][Next]_vars

\* event::run calls update once per frame for as long as the loop runs
SpecLive == Init /\ [][Next]_vars /\ WF_vars(Frame)

\* ------------------------------------------------------------- two runs
\* Two runs of the program fed the same events and the same outcomes of the
\* image loads, whose random draws differ: the running game draws the least
\* gap anchor every time, the other run draws any.
Handled(run, next) == IF run.result = "Err" THEN run ELSE next

InitTwin ==
    /\ Started(MinGaps)
    /\ \E gaps \in Gaps : other = restart(Self, AllLoaded, gaps)

FrameTwin ==
    /\ UNCHANGED held
    /\ IF \/ calls_Pipe_new
          \/ /\ other.status = "Playing"
             /\ spawn_due(retain(update_pipes(other.pipes)))
       THEN \E loaded \in BOOLEAN, gap_y \in GapYs :
              /\ update_with(loaded, PIPE_MIN_GAP_Y)
              /\ other' = Handled(other, update_self(other, loaded, gap_y))
       ELSE /\ update_with(TRUE, PIPE_MIN_GAP_Y)
            /\ other' = Handled(other,
                  update_self(other, TRUE, PIPE_MIN_GAP_Y))

KeyDownTwin ==
    \E keycode \in KeyCodes, repeat \in BOOLEAN :
        /\ KeyAllowed(keycode, repeat)
        /\ held' = (keycode = "Space" \/ held)
        /\ IF keycode = "R" /\ "GameOver" \in {status, other.status}
           THEN \E loads \in Loads, gaps \in Gaps :
                  /\ key_down_event_with(keycode, repeat, loads, MinGaps)
                  /\ other' = Handled(other,
                        key_down_event_self(other, keycode, repeat,
                                            loads, gaps))
           ELSE /\ key_down_event_with(keycode, repeat, AllLoaded, MinGaps)
                /\ other' = Handled(other,
                      key_down_event_self(other, keycode, repeat,
                                          AllLoaded, MinGaps))

NextTwin == FrameTwin \/ KeyDownTwin \/ KeyUp

SpecTwin == InitTwin /\ [][NextTwin]_vars

\* =============================================================== claims
\* a step of update in its Playing branch
UpdateStep == frames' = frames + 1
\* the pipes of the sequence that are still on screen after one scroll
Survivors == { i \in 1..Len(pipes) : pipes[i].x - 5 * Scale >= -100 * Scale }
\* the update appended a pipe
Spawned == Len(pipes') > Cardinality(Survivors)

\* C1: for every update performed while Playing, status becomes GameOver in
\* that update if and only if the bird's y after the physics step is below 0
\* or above 400; at exactly 0 or 400 the status stays Playing.
C1_GameOverIffOutOfBounds ==
    [][UpdateStep =>
         (status' = "GameOver" <=>
            (bird'.y < 0 \/ bird'.y > 400 * Scale))]_vars

\* C2: a successful restart from a GameOver state produces the initial
\* configuration: score 0, Playing, bird at (100, 200) with velocity 0 and
\* exactly 3 pipes at 600, 900, 1200 with freshly drawn gap anchors.
C2_RestartIsFullReset ==
    [][(status = "GameOver" /\ status' = "Playing") =>
         /\ score' = 0
         /\ bird' = [x |-> 100 * Scale, y |-> 200 * Scale, velocity |-> 0]
         /\ Len(pipes') = 3
         /\ pipes'[1].x = 600 * Scale
         /\ pipes'[2].x = 900 * Scale
         /\ pipes'[3].x = 1200 * Scale
         /\ \A i \in 1..3 : /\ pipes'[i].gap_y >= 100 * Scale
                             /\ pipes'[i].gap_y < 300 * Scale]_vars

C2_Restarted ==
    /\ games = 1 /\ frames = 0 /\ status = "Playing" /\ result = "Ok"
    /\ bird.y = 200 * Scale /\ Len(pipes) = 3

\* C3: while GameOver, update and every key event other than R leave bird,
\* pipes, score and status unchanged; status leaves GameOver only by R.
C3_GameOverFrozen ==
    [][(status = "GameOver" /\ game' # game) =>
         \E repeat \in BOOLEAN : key_down_event("R", repeat)]_vars

C3_GameOverWithSpaceDown ==
    /\ status = "GameOver" /\ result = "Ok" /\ held
    /\ is_out_of_bounds(bird) /\ frames > 0

\* C4: every update while Playing adds 0.5 to the velocity and then adds the
\* new velocity to y, leaving x at 100; from the initial state one update
\* without a jump gives (100, 200.5, v = 0.5).
C4_VelocityThenPosition ==
    [][UpdateStep =>
         /\ bird'.velocity = bird.velocity + 1
         /\ bird'.y = bird.y + bird'.velocity
         /\ bird'.x = 100 * Scale
         /\ (frames = 0 /\ bird.velocity = 0) =>
               bird' = [x |-> 100 * Scale, y |-> 401, velocity |-> 1]]_vars

C4_FirstFrame ==
    /\ frames = 1
    /\ bird = [x |-> 100 * Scale, y |-> 401, velocity |-> 1]

\* C5: a jump (Space while Playing) sets the velocity to -10 whatever it was
\* and changes nothing else; jumping twice is the same as jumping once; a
\* jump followed by one update gives velocity -9.5 and y decreased by 9.5.
C5_JumpOverwrites ==
    /\ [][(status = "Playing" /\ \E repeat \in BOOLEAN :
                                    key_down_event("Space", repeat)) =>
            /\ bird'.velocity = -10 * Scale
            /\ bird'.y = bird.y /\ bird'.x = bird.x
            /\ UNCHANGED <<pipes, score, status>>]_vars
    /\ [](jump(jump(bird)) = jump(bird))
    /\ [][(UpdateStep /\ bird.velocity = -10 * Scale) =>
            /\ bird'.velocity = -19
            /\ bird'.y = bird.y - 19]_vars

C5_JumpedThenUpdated ==
    /\ status = "Playing" /\ held /\ frames > 1
    /\ bird.velocity = -19 /\ bird.y # 200 * Scale - 19

\* C6: when update appends a pipe, the distance between the new pipe's x and
\* the x of the pipe that was last at that moment is exactly PIPE_SPACING.
C6_SpawnSpacing ==
    [][(UpdateStep /\ Spawned /\ Len(pipes') >= 2) =>
         pipes'[Len(pipes')].x - pipes'[Len(pipes') - 1].x = 300 * Scale]_vars

\* C7: after every update no pipe has x < -100: a pipe that crosses the
\* threshold is removed in that update, and the others keep their order.
C7_PurgedInOrder ==
    /\ [](\A i \in 1..Len(pipes) : pipes[i].x >= -100 * Scale)
    /\ [][UpdateStep =>
            /\ Len(pipes') >= Cardinality(Survivors)
            /\ \A i \in Survivors :
                 LET k == Cardinality({ j \in Survivors : j <= i })
                 IN  pipes'[k] = [pipes[i] EXCEPT !.x = @ - 5 * Scale]]_vars

C7_PipePurged ==
    /\ frames > 0 /\ Len(pipes) = 2
    /\ pipes[1].x < 300 * Scale /\ pipes[2].x = pipes[1].x + 300 * Scale

\* C8: in each update while Playing, after scrolling and purging, exactly one
\* pipe is appended at one fixed x if the last pipe's x is below 300, and
\* none otherwise (none at exactly 300).
C8_OneSpawnWhenDue ==
    [][UpdateStep =>
         LET n == Cardinality(Survivors)
             due == /\ Len(pipes) \in Survivors
                    /\ pipes[Len(pipes)].x - 5 * Scale < 300 * Scale
         IN  IF due
             THEN Len(pipes') = n + 1 /\ pipes'[n + 1].x = spawn_x
             ELSE Len(pipes') = n]_vars

\* C9: while Space is held, the key-down events delivered with repeat = TRUE
\* do not jump: they leave the bird's velocity as it is.
C9_RepeatDoesNotJump ==
    [][(held /\ key_down_event("Space", TRUE)) => bird' = bird]_vars

\* C10: no update returns an error or stops part-way: every update that
\* advances the bird and the pipes returns Ok.
C10_UpdateInfallible ==
    [][UpdateStep => result' = "Ok"]_vars

\* C11: in every reachable state two consecutive pipes are at least
\* PIPE_SPACING (300) apart and x strictly increases from head to tail.
C11_PipesSpacedAndOrdered ==
    \A i \in 1..(Len(pipes) - 1) :
        /\ pipes[i + 1].x - pipes[i].x >= 300 * Scale
        /\ pipes[i].x < pipes[i + 1].x

C11_LazyPipeIsRightmost ==
    /\ Len(pipes) = 3 /\ frames > 181
    /\ pipes[3].x - pipes[2].x = 505 * Scale
    /\ pipes[2].x - pipes[1].x = 300 * Scale

\* C12: every update while Playing moves every pipe that stays in the
\* sequence left by exactly PIPE_SPEED (5) and no other step of a game moves
\* a pipe; a pipe's gap anchor never changes and lies in [100, 300).
C12_PipesScrollGapsFixed ==
    /\ [](\A i \in 1..Len(pipes) :
            pipes[i].gap_y >= 100 * Scale /\ pipes[i].gap_y < 300 * Scale)
    /\ [][UpdateStep =>
            \A k \in 1..Len(pipes) :
               k + (Len(pipes) - Cardinality(Survivors)) \in 1..Len(pipes) =>
                 LET old == pipes[k + (Len(pipes) - Cardinality(Survivors))]
                 IN  /\ pipes'[k].x = old.x - 5 * Scale
                     /\ pipes'[k].x < old.x
                     /\ pipes'[k].gap_y = old.gap_y]_vars
    /\ [][(~UpdateStep /\ status' = status) => pipes' = pipes]_vars

C12_ScrolledPipes ==
    /\ Len(pipes) = 2 /\ frames > 181
    /\ pipes[1].x < 0 /\ pipes[2].x < 800 * Scale
    /\ pipes[1].gap_y # pipes[2].gap_y

\* C13: two runs fed the same events whose gap anchors differ have the same
\* bird, score and status at every step, and a game ends only when the bird
\* leaves the vertical bounds of the screen.
C13_PipesDoNotMatter ==
    /\ [](other.bird = bird /\ other.score = score /\ other.status = status)
    /\ [][(status = "Playing" /\ status' = "GameOver") =>
            (bird'.y < 0 \/ bird'.y > 400 * Scale)]_vars

C13_DifferentPipesSameGame ==
    /\ status = "GameOver" /\ frames > 100 /\ result = "Ok"
    /\ Len(other.pipes) = Len(pipes)
    /\ \A i \in 1..Len(pipes) : /\ other.pipes[i].x = pipes[i].x
                                /\ other.pipes[i].gap_y # pipes[i].gap_y

\* C14: no key-down event other than Space while Playing and R while
\* GameOver changes the game; in particular R does not restart a game that
\* is being played.
C14_OtherKeysIgnored ==
    [][<<game, frames>>' # <<game, frames>> =>
         \A keycode \in KeyCodes, repeat \in BOOLEAN :
            \/ keycode = "Space" /\ status = "Playing"
            \/ keycode = "R" /\ status = "GameOver"
            \/ ~key_down_event(keycode, repeat)]_vars

C14_MidGame ==
    /\ status = "Playing" /\ result = "Ok" /\ frames > 100
    /\ Len(pipes) = 3 /\ bird.y # 200 * Scale /\ ~held

\* C15: in every reachable state status is GameOver if and only if the bird
\* is out of bounds (y < 0 or y > 400).
C15_GameOverIffOutside ==
    (status = "GameOver") <=> (bird.y < 0 \/ bird.y > 400 * Scale)

\* C16: the score is 0 in every reachable state, whatever number of pipes
\* has scrolled past the bird.
C16_ScoreStaysZero == score = 0

C16_PipePassedBird ==
    /\ status = "GameOver" /\ score = 0
    /\ \E i \in 1..Len(pipes) : pipes[i].x < bird.x

\* C17: in every reachable state the pipe sequence holds between 1 and 3
\* pipes, and the last pipe is never purged: the spawn rule always finds a
\* last pipe.
C17_PipesNeverStarved ==
    /\ [](Len(pipes) >= 1 /\ Len(pipes) <= 3)
    /\ [][UpdateStep => Len(pipes) \in Survivors]_vars

C17_SinglePipeLeft ==
    /\ Len(pipes) = 1 /\ frames > 260 /\ status = "Playing"
    /\ pipes[1].x < 800 * Scale

\* C18: from any Playing state, if no jump occurs from then on and update
\* keeps being called (the loop has not ended on an error), the game reaches
\* GameOver; a game without any jump is over on exactly its 28th update.
C18_FallsToGameOver ==
    /\ (status = "Playing" /\ result = "Ok")
          ~> \/ status = "GameOver"
             \/ bird.velocity = -10 * Scale
             \/ result = "Err"
    /\ [](bird.velocity = frames =>
            /\ frames <= 28
            /\ status = "GameOver" <=> frames = 28)

C18_FellWithoutJump ==
    /\ status = "GameOver" /\ frames = 28 /\ bird.velocity = 28
    /\ bird.y = 806

\* C19: when GameState::new fails during a restart, key_down_event returns
\* the error and leaves status, bird, pipes and score as they were.
C19_FailedRestartKeepsState ==
    [][(status = "GameOver" /\ result' = "Err") => UNCHANGED game]_vars

C19_RestartFailed ==
    /\ status = "GameOver" /\ result = "Err"
    /\ is_out_of_bounds(bird) /\ Len(pipes) = 2

====
